---- MODULE Spec2Model ----
(***************************************************************************)
(* XrdCmsRedirLocal: the cms client plug-in that answers a Locate with a   *)
(* redirect to a local physical path when client and located target are   *)
(* both on private networks (src/src/XrdCmsRedirLocal.cc).                 *)
(*                                                                         *)
(* Strings the code inspects character by character (configuration words)  *)
(* are sequences of one-character strings; strings it only stores or       *)
(* hands to a collaborator (paths, host names) are TLA+ strings.           *)
(***************************************************************************)
EXTENDS Integers, Sequences, FiniteSets, TLC

VARIABLES
  readOnlyredirect,  \* the member set by the constructor and by loadConfig
  nativeCmsFinder,   \* TRUE: the member points to the XrdCmsFinderRMT
  cfgpc,             \* where Configure is: start, loading, loaded, configured
  cfgFile,           \* the file cfn names, while Configure runs
  Config,            \* the attached XrdOucStream: the lines not yet read
  thr,               \* per worker thread: the call it is in and its locals
  crashed            \* the process died (null pointer handed to a string copy)

vars == <<readOnlyredirect, nativeCmsFinder, cfgpc, cfgFile, Config, thr, crashed>>

-----------------------------------------------------------------------------
(* Program constants *)

SFS_REDIRECT == -256       \* XrdSfsInterface: the redirect return code
SFS_O_RDONLY == 0          \* XrdSfsInterface: open read/only
MinPVersion == 784         \* pversion < 784
PVersionModulus == 65536   \* pversion &= 0x0000ffff
MaxFlags == 512            \* flags > 0x200
LocalCode == -1            \* Resp.setErrInfo(-1, ppath)
IntMin == -2147483647 - 1  \* the int with only bit 0x80000000 set

(* Bounds of the model *)

MaxLines == 2

-----------------------------------------------------------------------------
(* Character strings: tolower, strcmp, std::string::find *)

UpperChars == <<"A","B","C","D","E","F","G","H","I","J","K","L","M",
                "N","O","P","Q","R","S","T","U","V","W","X","Y","Z">>
LowerChars == <<"a","b","c","d","e","f","g","h","i","j","k","l","m",
                "n","o","p","q","r","s","t","u","v","w","x","y","z">>

ToLowerChar(c) ==
  IF \E i \in 1..26 : UpperChars[i] = c
  THEN LowerChars[CHOOSE i \in 1..26 : UpperChars[i] = c]
  ELSE c

ToLower(w) == [i \in 1..Len(w) |-> ToLowerChar(w[i])]

\* std::string::find(needle) != npos
Find(hay, needle) ==
  \E i \in 1..(Len(hay) - Len(needle) + 1) :
     SubSeq(hay, i, i + Len(needle) - 1) = needle

\* the literal the code compares the first word of a line with
KeyLiteral ==
  <<"X","r","d","C","m","s","R","e","d","i","r","L","o","c","a","l",".",
    "r","e","a","d","o","n","l","y","r","e","d","i","r","e","c","t">>

TrueLiteral == <<"t","r","u","e">>

\* XrdOucStream::GetFirstWord(true) / GetWord(true): the word in lower case
GetWordLower(w) == ToLower(w)

\* strcmp(word, "XrdCmsRedirLocal.readonlyredirect") == 0
MatchesKey(word) == word = KeyLiteral

\* readWord.find("true") != string::npos
ValueIsTrue(readWord) == Find(readWord, TrueLiteral)

-----------------------------------------------------------------------------
(* Configuration files: lines of one or two words *)

Words ==
  { KeyLiteral,
    <<"T","r","u","e">>,
    <<"f","a","l","s","e">>,
    <<"o","s","s",".","l","o","c","a","l","r","o","o","t">> }

Lines == {<<k>> : k \in Words} \cup {<<k, v>> : k \in Words, v \in Words}

RECURSIVE SeqsUpTo(_, _)
SeqsUpTo(S, n) ==
  IF n = 0 THEN {<<>>}
  ELSE LET shorter == SeqsUpTo(S, n - 1)
       IN  shorter \cup {Append(s, x) : s \in {q \in shorter : Len(q) = n - 1}, x \in S}

ConfigFiles == {[readable |-> TRUE, lines |-> ls] : ls \in SeqsUpTo(Lines, MaxLines)}
NoFile == [readable |-> FALSE, lines |-> <<>>]

-----------------------------------------------------------------------------
(* Collaborators: XrdNetAddr, the native finder, XrdOss::Lfn2Pfn, XrdOucErrInfo *)

PrivateHosts == {"10.0.0.9", "10.0.0.5"}
PublicHosts == {"203.0.113.7", "198.51.100.2"}
UnsetAddr == "unset"

\* XrdNetAddr target(-1); target.Set(text): text that names no host leaves
\* the address unset
NetAddrSet(text) == IF text \in PrivateHosts \cup PublicHosts THEN text ELSE UnsetAddr

isPrivate(addr) == addr \in PrivateHosts

NoResp == [code |-> 0, text |-> "", ucap |-> 0]

\* what nativeCmsFinder->Locate can leave behind: return code, and Resp
LocatorRcodes == {SFS_REDIRECT, -1}
LocatorTexts == {"10.0.0.9", "203.0.113.7", "no servers have the file"}
UCaps == {783, 784, 65536 + 783, 65536 + 784}
LocateResults ==
  {[rcode |-> r, Resp |-> [code |-> (IF r = SFS_REDIRECT THEN 1094 ELSE 3011),
                           text |-> x, ucap |-> u]] :
     r \in LocatorRcodes, x \in LocatorTexts, u \in UCaps}

Paths == {"/data/f", "/data/g"}
Flags == {SFS_O_RDONLY, 1, MaxFlags, MaxFlags + 1, IntMin}
Clients == {"10.0.0.5", "198.51.100.2"}
Requests == {[path |-> p, flags |-> f, client |-> c] :
               p \in Paths, f \in Flags, c \in Clients}

\* the smaller inputs of the runs with two threads in flight
ConcRequests == {q \in Requests : q.path = "/data/f" /\ q.flags \in {SFS_O_RDONLY, 1, IntMin}}
ConcResults == {r \in LocateResults : r.Resp.ucap \in {783, 784}
                                      /\ r.Resp.text \in {"10.0.0.9", "203.0.113.7"}}

\* the rc of theSS->Lfn2Pfn: 0, or -ENAMETOOLONG
TranslateRcs == {0, -36}
NullPath == "<null>"

\* theSS->Lfn2Pfn(path, buff, maxPathLength, rc): the path under oss.localroot,
\* or no path when rc is not 0
Lfn2Pfn(path, rc) ==
  IF rc # 0 THEN NullPath
  ELSE CASE path = "/data/f" -> "/local/data/f"
         [] path = "/data/g" -> "/local/data/g"
         [] OTHER -> path

\* Resp.setErrInfo(code, text): ucap is kept
setErrInfo(Resp, code, text) == [Resp EXCEPT !.code = code, !.text = text]

\* a variant that sends the logical path back
LocalResponse_Lfn(Resp, path, ppath) == setErrInfo(Resp, LocalCode, path)

\* Resp.setErrInfo(-1, ppath): the answer of a local redirect
LocalResponse(Resp, path, ppath) == setErrInfo(Resp, LocalCode, ppath)

-----------------------------------------------------------------------------
(* The gates of Locate *)

\* target.Set(Resp.getErrText()); target.isPrivate()
TargetIsPrivate(Resp) == isPrivate(NetAddrSet(Resp.text))

\* a variant without the test of the client's address
ClientIsPrivate_Skip(client) == TRUE

\* EnvInfo->secEnv()->addrInfo->isPrivate()
ClientIsPrivate(client) == isPrivate(client)

\* a variant without the mask
PVersion_NoMask(Resp) == Resp.ucap

\* pversion = Resp.getUCap(); pversion &= 0x0000ffff
PVersion(Resp) == Resp.ucap % PVersionModulus

\* flags > 0x200 is a comparison of signed ints
FlagsTooLarge(flags) == flags > MaxFlags

\* a variant that never looks at the policy
PolicyBlocks_Never(ro, flags) == FALSE

\* readOnlyredirect && !(flags == SFS_O_RDONLY)
PolicyBlocks(ro, flags) == ro /\ ~(flags = SFS_O_RDONLY)

\* none of the early returns of Locate is taken
GatesPass(Resp, client, flags, ro) ==
  /\ TargetIsPrivate(Resp)
  /\ ClientIsPrivate(client)
  /\ ~(PVersion(Resp) < MinPVersion)
  /\ ~FlagsTooLarge(flags)
  /\ ~PolicyBlocks(ro, flags)

-----------------------------------------------------------------------------
(* State after construction *)

Threads == {"t1", "t2"}

Idle == [pc |-> "idle", op |-> "none", path |-> "", flags |-> 0, client |-> "",
         Resp |-> NoResp, native |-> NoResp, rcode |-> 0, ret |-> 0, rc |-> 0,
         nLocate |-> 0, nTranslate |-> 0]

\* XrdCmsRedirLocal::XrdCmsRedirLocal
Init ==
  /\ readOnlyredirect = FALSE
  /\ nativeCmsFinder = TRUE
  /\ cfgpc = "start"
  /\ cfgFile = NoFile
  /\ Config = <<>>
  /\ thr = [t \in Threads |-> Idle]
  /\ crashed = FALSE

-----------------------------------------------------------------------------
(* Configure and loadConfig *)

\* Configure calls loadConfig, which opens the file cfn names: a file that
\* cannot be opened ends loadConfig at once
ConfigureOpen(f) ==
  /\ ~crashed
  /\ cfgpc = "start"
  /\ cfgFile' = f
  /\ IF f.readable
     THEN cfgpc' = "loading" /\ Config' = f.lines
     ELSE cfgpc' = "loaded" /\ Config' = <<>>
  /\ UNCHANGED <<readOnlyredirect, nativeCmsFinder, thr, crashed>>

\* one turn of the while loop: the first word of the next line, in lower
\* case, is compared with the key; on a match the next word of the line, in
\* lower case, decides the flag. A line that ends after the key hands
\* std::string a null pointer.
LoadConfigWord ==
  /\ ~crashed
  /\ cfgpc = "loading"
  /\ Config # <<>>
  /\ LET line == Head(Config)
         word == GetWordLower(line[1])
     IN  IF MatchesKey(word)
         THEN IF Len(line) >= 2
              THEN /\ readOnlyredirect' = ValueIsTrue(GetWordLower(line[2]))
                   /\ crashed' = FALSE
              ELSE /\ crashed' = TRUE
                   /\ UNCHANGED readOnlyredirect
         ELSE UNCHANGED <<readOnlyredirect, crashed>>
  /\ Config' = Tail(Config)
  /\ UNCHANGED <<nativeCmsFinder, cfgpc, cfgFile, thr>>

\* GetFirstWord finds no further line: Config.Close()
LoadConfigClose ==
  /\ ~crashed
  /\ cfgpc = "loading"
  /\ Config = <<>>
  /\ cfgpc' = "loaded"
  /\ UNCHANGED <<readOnlyredirect, nativeCmsFinder, cfgFile, Config, thr, crashed>>

\* loadConfig has returned: Configure hands over to the native finder's
\* Configure and returns
ConfigureReturn ==
  /\ ~crashed
  /\ cfgpc = "loaded"
  /\ cfgpc' = "configured"
  /\ cfgFile' = NoFile
  /\ UNCHANGED <<readOnlyredirect, nativeCmsFinder, Config, thr, crashed>>

-----------------------------------------------------------------------------
(* Locate *)

\* Locate is entered and calls nativeCmsFinder->Locate, which fills Resp and
\* returns rcode; without a native finder Locate returns 0 at once
LocateCall(t, reqs, results) ==
  /\ ~crashed
  /\ cfgpc = "configured"
  /\ thr[t].pc = "idle"
  /\ \E q \in reqs, r \in results :
       thr' = [thr EXCEPT ![t] =
                IF nativeCmsFinder
                THEN [Idle EXCEPT !.pc = "located", !.op = "Locate",
                                  !.path = q.path, !.flags = q.flags,
                                  !.client = q.client,
                                  !.Resp = r.Resp, !.native = r.Resp,
                                  !.rcode = r.rcode, !.nLocate = 1]
                ELSE [Idle EXCEPT !.pc = "done", !.op = "Locate",
                                  !.path = q.path, !.flags = q.flags,
                                  !.client = q.client]]
  /\ UNCHANGED <<readOnlyredirect, nativeCmsFinder, cfgpc, cfgFile, Config, crashed>>

\* a slip that would make the policy test an assignment:
\* if (readOnlyredirect = !(flags == SFS_O_RDONLY))
LocateGates_Assign(t) ==
  /\ ~crashed
  /\ thr[t].pc = "located"
  /\ LET c == thr[t]
         ro == ~(c.flags = SFS_O_RDONLY)
         early == \/ ~TargetIsPrivate(c.Resp)
                  \/ ~ClientIsPrivate(c.client)
                  \/ PVersion(c.Resp) < MinPVersion
                  \/ FlagsTooLarge(c.flags)
     IN  /\ readOnlyredirect' = IF early THEN readOnlyredirect ELSE ro
         /\ thr' = [thr EXCEPT ![t] =
                     IF ~early /\ ~ro
                     THEN [c EXCEPT !.pc = "passed"]
                     ELSE [c EXCEPT !.pc = "done", !.ret = c.rcode]]
  /\ UNCHANGED <<nativeCmsFinder, cfgpc, cfgFile, Config, crashed>>

\* the early returns: target, client, protocol version, flags, policy. Each
\* returns rcode and leaves Resp as the native finder filled it.
LocateGates(t) ==
  /\ ~crashed
  /\ thr[t].pc = "located"
  /\ LET c == thr[t]
     IN  thr' = [thr EXCEPT ![t] =
                  IF GatesPass(c.Resp, c.client, c.flags, readOnlyredirect)
                  THEN [c EXCEPT !.pc = "passed"]
                  ELSE [c EXCEPT !.pc = "done", !.ret = c.rcode]]
  /\ UNCHANGED <<readOnlyredirect, nativeCmsFinder, cfgpc, cfgFile, Config, crashed>>

\* a variant that asks the translator a second time when it fails
LocateTranslate_Retry(t) ==
  /\ ~crashed
  /\ thr[t].pc = "passed"
  /\ \E rc \in TranslateRcs :
       LET c == thr[t]
           ppath == Lfn2Pfn(c.path, rc)
       IN  /\ thr' = [thr EXCEPT ![t] =
                       [c EXCEPT !.pc = "done", !.rc = rc,
                                 !.nTranslate = IF rc = 0 THEN 1 ELSE 2,
                                 !.Resp = LocalResponse(c.Resp, c.path,
                                                        IF ppath = NullPath THEN "" ELSE ppath),
                                 !.ret = SFS_REDIRECT]]
           /\ crashed' = FALSE
  /\ UNCHANGED <<readOnlyredirect, nativeCmsFinder, cfgpc, cfgFile, Config>>

\* all gates passed: one call of theSS->Lfn2Pfn, whose rc is not looked at;
\* Resp becomes (-1, ppath) and Locate returns SFS_REDIRECT. When the
\* translator gave no path, setErrInfo copies from a null pointer: the
\* process dies, or a guarded copy leaves an empty text.
LocateTranslate(t) ==
  /\ ~crashed
  /\ thr[t].pc = "passed"
  /\ \E rc \in TranslateRcs :
       LET c == thr[t]
           ppath == Lfn2Pfn(c.path, rc)
           called == [c EXCEPT !.rc = rc, !.nTranslate = c.nTranslate + 1]
       IN  IF ppath # NullPath
           THEN /\ thr' = [thr EXCEPT ![t] =
                            [called EXCEPT !.pc = "done",
                                           !.Resp = LocalResponse(c.Resp, c.path, ppath),
                                           !.ret = SFS_REDIRECT]]
                /\ crashed' = FALSE
           ELSE \/ /\ thr' = [thr EXCEPT ![t] = called]
                   /\ crashed' = TRUE
                \/ /\ thr' = [thr EXCEPT ![t] =
                               [called EXCEPT !.pc = "done",
                                              !.Resp = LocalResponse(c.Resp, c.path, ""),
                                              !.ret = SFS_REDIRECT]]
                   /\ crashed' = FALSE
  /\ UNCHANGED <<readOnlyredirect, nativeCmsFinder, cfgpc, cfgFile, Config>>

\* the caller has taken the return value and Resp
Return(t) ==
  /\ ~crashed
  /\ thr[t].pc = "done"
  /\ thr' = [thr EXCEPT ![t] = Idle]
  /\ UNCHANGED <<readOnlyredirect, nativeCmsFinder, cfgpc, cfgFile, Config, crashed>>

-----------------------------------------------------------------------------
(* Space *)

SpaceResults == {[rcode |-> 0, Resp |-> [code |-> 0, text |-> "100 100 0 0 0 0", ucap |-> 784]],
                 [rcode |-> -1, Resp |-> [code |-> 3011, text |-> "no servers have the file", ucap |-> 784]]}

\* Space hands the call to nativeCmsFinder->Space and returns what it returns
Space(t, reqs) ==
  /\ ~crashed
  /\ cfgpc = "configured"
  /\ thr[t].pc = "idle"
  /\ \E q \in reqs, r \in SpaceResults :
       thr' = [thr EXCEPT ![t] =
                IF nativeCmsFinder
                THEN [Idle EXCEPT !.pc = "done", !.op = "Space", !.path = q.path,
                                  !.client = q.client, !.Resp = r.Resp,
                                  !.native = r.Resp, !.rcode = r.rcode, !.ret = r.rcode]
                ELSE [Idle EXCEPT !.pc = "done", !.op = "Space", !.path = q.path,
                                  !.client = q.client]]
  /\ UNCHANGED <<readOnlyredirect, nativeCmsFinder, cfgpc, cfgFile, Config, crashed>>

-----------------------------------------------------------------------------
(* The plug-in from construction on: Configure, then two threads serving *)

Next ==
  \/ \E f \in ConfigFiles \cup {NoFile} : ConfigureOpen(f)
  \/ LoadConfigWord
  \/ LoadConfigClose
  \/ ConfigureReturn
  \/ \E t \in Threads : LocateCall(t, ConcRequests, ConcResults)
  \/ \E t \in Threads : LocateGates(t)
  \/ \E t \in Threads : LocateTranslate(t)
  \/ \E t \in Threads : Space(t, ConcRequests)
  \/ \E t \in Threads : Return(t)

Spec == Init /\ [][Next]_vars

(* One serving thread, every request and locator result, either value of    *)
(* the policy flag                                                           *)

InitServe ==
  /\ readOnlyredirect \in BOOLEAN
  /\ nativeCmsFinder = TRUE
  /\ cfgpc = "configured"
  /\ cfgFile = NoFile
  /\ Config = <<>>
  /\ thr = [t \in Threads |-> Idle]
  /\ crashed = FALSE

NextServe ==
  \/ LocateCall("t1", Requests, LocateResults)
  \/ LocateGates("t1")
  \/ LocateTranslate("t1")
  \/ Space("t1", Requests)
  \/ Return("t1")

SpecServe == InitServe /\ [][NextServe]_vars

-----------------------------------------------------------------------------
(* Vocabulary of the properties *)

LocateDone(t) == thr[t].pc = "done" /\ thr[t].op = "Locate"

\* the native finder's return code and response, handed on untouched
RemoteRedirect(c) == c.ret = c.rcode /\ c.Resp = c.native

\* the redirect status with the local marker as the response's code
LocalRedirect(c) == c.ret = SFS_REDIRECT /\ c.Resp.code = LocalCode

LocatorOk(c) == c.rcode = SFS_REDIRECT
TargetPrivate(c) == c.native.text \in PrivateHosts
ClientPrivate(c) == c.client \in PrivateHosts
CapabilityOk(c) == c.native.ucap % 65536 >= 784
\* the flags read as a 32-bit mask are at most 0x200
FlagsInRange(c) == c.flags >= 0 /\ c.flags <= 512
PolicyOk(c) == ~readOnlyredirect \/ c.flags = 0

\* C1: a request whose locator succeeded, whose target and client are
\* private, whose capability is at least 784, whose flags are in range and
\* pass the policy, and whose path the translator translates, returns
\* SFS_REDIRECT with the response (-1, physical path of the logical path).
C1_LocalRedirect ==
  \A t \in Threads :
    LET c == thr[t]
    IN  (/\ LocateDone(t) /\ LocatorOk(c) /\ TargetPrivate(c) /\ ClientPrivate(c)
         /\ CapabilityOk(c) /\ FlagsInRange(c) /\ PolicyOk(c) /\ c.rc = 0)
        => /\ c.ret = SFS_REDIRECT
           /\ c.Resp.code = LocalCode
           /\ c.Resp.text = Lfn2Pfn(c.path, 0)
           /\ c.Resp.text # c.path

C1_Witness ==
  LET c == thr["t1"]
  IN  /\ LocateDone("t1") /\ LocatorOk(c) /\ readOnlyredirect
      /\ c.client = "10.0.0.5" /\ c.native.text = "10.0.0.9"
      /\ c.native.ucap = 65536 + 784 /\ c.flags = 0
      /\ c.path = "/data/f" /\ c.nTranslate = 1 /\ c.rc = 0
      /\ c.Resp.text = "/local/data/f"

\* C2: when the target or the client is not private, Locate returns the
\* native finder's code, the response is the native finder's, and the
\* translator was not called.
C2_PublicIsRemote ==
  \A t \in Threads :
    LET c == thr[t]
    IN  (LocateDone(t) /\ (~TargetPrivate(c) \/ ~ClientPrivate(c)))
        => RemoteRedirect(c) /\ c.nTranslate = 0

C2_Witness ==
  LET c == thr["t1"]
  IN  /\ LocateDone("t1") /\ LocatorOk(c) /\ TargetPrivate(c)
      /\ c.client = "198.51.100.2" /\ CapabilityOk(c) /\ c.flags = 0
      /\ RemoteRedirect(c)

\* C3 (as claimed): when the native finder does not return success, its
\* code and response are handed on untouched, whatever the response text is.
C3_FailurePropagates ==
  \A t \in Threads :
    LET c == thr[t]
    IN  (LocateDone(t) /\ ~LocatorOk(c)) => RemoteRedirect(c)

\* C4 (as claimed): when every gate passed and the translator gives no
\* path, the native finder's code and response are handed on untouched.
C4_TranslationFailureIsRemote ==
  \A t \in Threads :
    LET c == thr[t]
    IN  (LocateDone(t) /\ c.nTranslate > 0 /\ c.rc # 0) => RemoteRedirect(c)

\* C5: with readOnlyredirect set, flags other than read-only give the native
\* answer, and read-only flags with the other gates passing give the local
\* redirect; with readOnlyredirect unset, the other gates passing give the
\* local redirect whatever the flags.
C5_PolicyGate ==
  \A t \in Threads :
    LET c == thr[t]
        others == TargetPrivate(c) /\ ClientPrivate(c) /\ CapabilityOk(c)
                  /\ ~(c.flags > 512)
    IN  LocateDone(t) =>
          /\ (readOnlyredirect /\ c.flags # 0) => RemoteRedirect(c)
          /\ (readOnlyredirect /\ c.flags = 0 /\ others) => LocalRedirect(c)
          /\ (~readOnlyredirect /\ others) => LocalRedirect(c)

C5_Witness ==
  LET c == thr["t1"]
  IN  /\ LocateDone("t1") /\ readOnlyredirect /\ c.flags = 1
      /\ LocatorOk(c) /\ TargetPrivate(c) /\ ClientPrivate(c) /\ CapabilityOk(c)
      /\ RemoteRedirect(c)

\* C6: a capability whose low 16 bits are below 784 gives the native
\* answer, and the answer is the one of the same request with the bits above
\* the low 16 cleared.
C6_CapabilityGate ==
  \A t \in Threads :
    LET c == thr[t]
        low == [c.native EXCEPT !.ucap = c.native.ucap % 65536]
    IN  LocateDone(t) =>
          /\ (c.native.ucap % 65536 < 784) => RemoteRedirect(c)
          /\ LocalRedirect(c) <=> GatesPass(low, c.client, c.flags, readOnlyredirect)

C6_Witness ==
  LET c == thr["t1"]
  IN  /\ LocateDone("t1") /\ c.native.ucap = 65536 + 783
      /\ LocatorOk(c) /\ TargetPrivate(c) /\ ClientPrivate(c) /\ c.flags = 0
      /\ RemoteRedirect(c)

\* C7 (as claimed): flags that, read as a 32-bit mask, exceed 0x200 give the
\* native answer.
C7_FlagsOutOfRangeIsRemote ==
  \A t \in Threads :
    LET c == thr[t]
    IN  (LocateDone(t) /\ ~FlagsInRange(c)) => RemoteRedirect(c)

\* the flag the configuration directive asks for: some line has the key in
\* any case and a value with "true" in any case
ClaimedReadOnly(f) ==
  /\ f.readable
  /\ \E i \in 1..Len(f.lines) :
       LET line == f.lines[i]
       IN  /\ Len(line) >= 2
           /\ ToLower(line[1]) = ToLower(KeyLiteral)
           /\ Find(ToLower(line[2]), TrueLiteral)

\* C8 (as claimed): when loadConfig has returned, readOnlyredirect is true
\* exactly when the file can be read and holds such a directive.
C8_ConfigSetsFlag ==
  cfgpc = "loaded" => (readOnlyredirect = ClaimedReadOnly(cfgFile))

\* every gate of Locate holds of the call
Qualifies(c) ==
  /\ TargetPrivate(c) /\ ClientPrivate(c) /\ CapabilityOk(c)
  /\ ~(c.flags > 512) /\ PolicyOk(c)

\* C9: within a Locate the native finder is called once, before the gates;
\* the translator is called at most once and only when every gate passed;
\* a call that ends with the native answer never called the translator.
C9_CallCounts ==
  \A t \in Threads :
    LET c == thr[t]
    IN  /\ (c.op = "Locate" /\ c.pc # "idle") => c.nLocate = 1
        /\ (c.pc = "idle" \/ c.pc = "located") => c.nTranslate = 0
        /\ c.nTranslate <= 1
        /\ c.nTranslate = 1 => (c.op = "Locate" /\ Qualifies(c))
        /\ (LocateDone(t) /\ c.Resp = c.native) => c.nTranslate = 0
        /\ (LocateDone(t) /\ c.Resp # c.native) => c.nTranslate = 1

C9_Witness ==
  LET c == thr["t1"]
  IN  LocateDone("t1") /\ c.nLocate = 1 /\ c.nTranslate = 1 /\ c.rc # 0

\* what the call of a thread returns when nothing runs beside it
LocateAlone(c, ro) ==
  IF GatesPass(c.native, c.client, c.flags, ro)
  THEN [ret |-> SFS_REDIRECT,
        Resp |-> LocalResponse(c.native, c.path,
                               IF c.rc = 0 THEN Lfn2Pfn(c.path, 0) ELSE "")]
  ELSE [ret |-> c.rcode, Resp |-> c.native]

\* C10: once Configure has returned no step changes readOnlyredirect or any
\* other state the calls share, and a Locate that has returned, with other
\* calls in flight, has the return value and response it has when run alone.
C10_NoSharedWrites ==
  /\ [][cfgpc = "configured" =>
          UNCHANGED <<readOnlyredirect, nativeCmsFinder, cfgpc, cfgFile, Config>>]_vars
  /\ [](\A t \in Threads :
          LocateDone(t) =>
            [ret |-> thr[t].ret, Resp |-> thr[t].Resp] = LocateAlone(thr[t], readOnlyredirect))

C10_Witness ==
  /\ LocateDone("t1") /\ LocalRedirect(thr["t1"]) /\ thr["t1"].flags = 1
  /\ thr["t2"].op = "Locate" /\ thr["t2"].pc = "passed" /\ thr["t2"].flags = 0

====
